---- MODULE Spec2Model ----
(***************************************************************************)
(* A model of send_images.py: one run of main(), which checks the          *)
(* credentials, fetches and parses the news page once (get_all_items),     *)
(* then downloads and sends every extracted image in order, pausing        *)
(* between network calls, and prints a summary.                            *)
(*                                                                         *)
(* Python strings are sequences of one-character strings, so that strip,   *)
(* slicing, replace and startswith are computed as Python computes them.   *)
(* Python values of mixed type (str / int / None) are records              *)
(* [ty, s, n].  The network is the environment: every response (page,      *)
(* image download, sendPhoto) is an input of the step that receives it.    *)
(* The filename derivation of download_image_bytes (lines 71-85) cannot    *)
(* raise and does not influence control flow; it is not modelled.          *)
(***************************************************************************)
EXTENDS Integers, Sequences, FiniteSets, TLC

VARIABLES
    environ,    \* os.environ: the three variables the program reads
    pc,         \* position of main(): start, fetch, download, send, pause, delay, summary, exit
    token,      \* main's local `token`
    chat_id,    \* main's local `chat_id`
    page,       \* the HTTP response received by get_all_items (NoResponse before)
    items,      \* main's local `items`
    idx,        \* the loop index of `enumerate(items, start=1)`
    sent,       \* main's local `sent`
    delay,      \* main's local `delay`
    trace,      \* every network call and every time.sleep call, in order
    stdout,     \* every printed line, in order
    exitCode    \* the process exit status (meaningful when pc = "exit")

vars == <<environ, pc, token, chat_id, page, items, idx, sent, delay, trace, stdout, exitCode>>

(***************************************************************************)
(* Bounds                                                                  *)
(***************************************************************************)
\* the largest number of <li> entries in the image-list container
MaxEntries == 3

(***************************************************************************)
(* Python values and strings                                               *)
(***************************************************************************)
None == [ty |-> "none", s |-> <<>>, n |-> 0]
PyStr(chars) == [ty |-> "str", s |-> chars, n |-> 0]
PyInt(k) == [ty |-> "int", s |-> <<>>, n |-> k]

\* Python truthiness of None, str and int
Truthy(v) ==
    CASE v.ty = "none" -> FALSE
      [] v.ty = "str" -> v.s # <<>>
      [] v.ty = "int" -> v.n # 0

\* Python `a or b`
Or(a, b) == IF Truthy(a) THEN a ELSE b

Whitespace == {" ", "\t", "\n", "\r"}

RECURSIVE LStrip(_)
LStrip(s) == IF s # <<>> /\ Head(s) \in Whitespace THEN LStrip(Tail(s)) ELSE s

RECURSIVE RStrip(_)
RStrip(s) ==
    IF s # <<>> /\ s[Len(s)] \in Whitespace THEN RStrip(SubSeq(s, 1, Len(s) - 1)) ELSE s

\* str.strip()
Strip(s) == RStrip(LStrip(s))

\* s[:-1]
DropLast(s) == IF s = <<>> THEN <<>> ELSE SubSeq(s, 1, Len(s) - 1)

\* str.startswith(p)
StartsWith(s, p) == Len(s) >= Len(p) /\ SubSeq(s, 1, Len(p)) = p

\* str.replace(old, new), old non-empty: leftmost non-overlapping occurrences
RECURSIVE Replace(_, _, _)
Replace(s, old, new) ==
    IF Len(s) < Len(old) THEN s
    ELSE IF StartsWith(s, old)
         THEN new \o Replace(SubSeq(s, Len(old) + 1, Len(s)), old, new)
         ELSE <<Head(s)>> \o Replace(Tail(s), old, new)

\* the position of the n-th "/" of s, or 0
RECURSIVE NthSlash(_, _, _)
NthSlash(s, n, from) ==
    IF from > Len(s) THEN 0
    ELSE IF s[from] = "/"
         THEN IF n = 1 THEN from ELSE NthSlash(s, n - 1, from + 1)
         ELSE NthSlash(s, n, from + 1)

\* requests.compat.urljoin(base, ref) for a ref that starts with a single "/":
\* scheme and host of base, followed by ref
urljoin(base, ref) ==
    LET third == NthSlash(base, 3, 1)
    IN  (IF third = 0 THEN base ELSE SubSeq(base, 1, third - 1)) \o ref

\* float(text) for a text of decimal digits
RECURSIVE ParseFloat(_)
ParseFloat(s) ==
    IF s = <<>> THEN 0
    ELSE LET d == CHOOSE k \in 0..9 :
                    s[Len(s)] = <<"0","1","2","3","4","5","6","7","8","9">>[k + 1]
         IN  10 * ParseFloat(DropLast(s)) + d

(***************************************************************************)
(* String constants of the program                                         *)
(***************************************************************************)
URL == <<"h","t","t","p","s",":","/","/","t","h","e","t","v",".","j","p",
         "/","n","e","w","s","/","d","e","t","a","i","l","/",
         "1","3","1","0","4","0","5","/">>
HostPrefix == <<"h","t","t","p","s",":","/","/","t","h","e","t","v",".","j","p","/">>
DetailPath == <<"/","n","e","w","s","/","d","e","t","a","i","l","/">>
ImagePath == <<"/","i","/","n","w","/">>
JpgExt == <<".","j","p","g">>
HttpsColon == <<"h","t","t","p","s",":">>
DefaultDelay == <<"1">>

\* time.sleep(3) after a send
PostSendPause == 3

(***************************************************************************)
(* Inputs: the environment and the network's responses                     *)
(***************************************************************************)
TokenText == <<"t","o","k">>
ChatText == <<"-","7">>
MemberA == <<"M","e","m","b","e","r"," ","A">>
MemberC == <<"M","e","m","b","e","r"," ","C">>
\* href="/news/detail/1310405/1/"
Href1 == <<"/","n","e","w","s","/","d","e","t","a","i","l","/",
           "1","3","1","0","4","0","5","/","1","/">>
\* href=" /news/detail/1310405/2/\n" (padded with whitespace)
Href2 == <<" ","/","n","e","w","s","/","d","e","t","a","i","l","/",
           "1","3","1","0","4","0","5","/","2","/","\n">>

\* an <li>: the href attribute of each <a> in it and the alt attribute of
\* each <img> in it, in document order (None: the attribute is absent)
EntryA == [anchors |-> <<PyStr(Href1)>>, imgs |-> <<PyStr(MemberA)>>]
EntryB == [anchors |-> <<PyStr(Href2)>>, imgs |-> <<>>]
EntryNoAnchor == [anchors |-> <<>>, imgs |-> <<PyStr(MemberC)>>]
EntryNoHref == [anchors |-> <<None>>, imgs |-> <<PyStr(MemberC)>>]
EntryEmptyHref == [anchors |-> <<PyStr(<<>>)>>, imgs |-> <<>>]
EntryNoAlt == [anchors |-> <<PyStr(Href1)>>, imgs |-> <<None>>]
Entries == {EntryA, EntryB, EntryNoAnchor, EntryNoHref, EntryEmptyHref, EntryNoAlt}

SeqsUpTo(S, n) == UNION {[1..k -> S] : k \in 0..n}

\* the <li> lists of one div.newsimage
Containers == SeqsUpTo(Entries, MaxEntries)

\* a response to the page GET: status is "error" when requests.get or
\* raise_for_status raises and "ok" otherwise; containers are the page's
\* div.newsimage elements, in document order
NoResponse == [status |-> "none", containers |-> <<>>]
FailedResponse == [status |-> "error", containers |-> <<>>]
Pages ==
    {[status |-> "ok", containers |-> cs] :
        cs \in {<<>>} \cup {<<c>> : c \in Containers}
                      \cup {<<c, <<EntryA>>>> : c \in {<<>>, <<EntryB>>}}}
Responses == {FailedResponse} \cup Pages

EnvTokenValues == {None, PyStr(<<>>), PyStr(TokenText)}
EnvChatValues == {None, PyStr(ChatText)}
EnvDelayValues == {None, PyStr(<<"2">>)}

\* os.getenv(name) and os.getenv(name, default)
getenv(name) == environ[name]
getenvDefault(name, default) ==
    IF environ[name].ty = "none" THEN PyStr(default) ELSE environ[name]

(***************************************************************************)
(* get_all_items                                                           *)
(***************************************************************************)
Line(text, a, b) == [text |-> text, a |-> a, b |-> b]

\* Tag.find(name): the first matching descendant, or None
Find(tags) == IF tags = <<>> THEN [found |-> FALSE, attr |-> None]
              ELSE [found |-> TRUE, attr |-> Head(tags)]

\* lines 41-51: the image URL built from a href
ImageSrc(href) ==
    LET src == HostPrefix \o Replace(DropLast(Strip(href)), DetailPath, ImagePath) \o JpgExt
    IN  IF StartsWith(src, <<"/","/">>) THEN HttpsColon \o src
        ELSE IF StartsWith(src, <<"/">>) THEN urljoin(URL, src)
        ELSE src

\* lines 35-58: the loop over the <li> of the first container, from entry j
\* on; raised is TRUE when img["alt"] raises KeyError
RECURSIVE ExtractFrom(_, _, _, _)
ExtractFrom(lis, j, acc, out) ==
    IF j > Len(lis) THEN [raised |-> FALSE, items |-> acc, out |-> out]
    ELSE LET a == Find(lis[j].anchors)
             img == Find(lis[j].imgs)
             out1 == Append(out, Line("li", j, 0))
         IN  IF ~a.found \/ ~Truthy(a.attr)
             THEN ExtractFrom(lis, j + 1, acc, out1)
             ELSE IF img.found /\ img.attr.ty = "none"
                  THEN [raised |-> TRUE, items |-> <<>>,
                        out |-> Append(out1, Line("src", j, 0))]
                  ELSE LET item == [src |-> ImageSrc(a.attr.s),
                                    caption |-> IF img.found THEN img.attr.s ELSE <<>>]
                           acc1 == Append(acc, item)
                       IN  ExtractFrom(lis, j + 1, acc1,
                               out1 \o <<Line("src", j, 0), Line("items", Len(acc1), 0)>>)

\* lines 25-58: raised when the GET fails, when there is no div.newsimage
\* (IndexError on [0]) or when an <img> has no alt (KeyError)
get_all_items(resp) ==
    IF resp.status # "ok" THEN [raised |-> TRUE, items |-> <<>>, out |-> <<>>]
    ELSE IF resp.containers = <<>> THEN [raised |-> TRUE, items |-> <<>>, out |-> <<>>]
    ELSE ExtractFrom(resp.containers[1], 1, <<>>, <<>>)

(***************************************************************************)
(* main                                                                    *)
(***************************************************************************)
Event(op, k, ok, secs) == [op |-> op, k |-> k, ok |-> ok, secs |-> secs]

Init ==
    /\ environ \in [TELEGRAM_BOT_TOKEN : EnvTokenValues,
                    TELEGRAM_CHAT_ID : EnvChatValues,
                    TELEGRAM_DELAY_SECONDS : EnvDelayValues]
    /\ pc = "start"
    /\ token = None
    /\ chat_id = None
    /\ page = NoResponse
    /\ items = <<>>
    /\ idx = 0
    /\ sent = 0
    /\ delay = 0
    /\ trace = <<>>
    /\ stdout = <<>>
    /\ exitCode = 0

\* lines 106-112
CheckCredentials ==
    /\ pc = "start"
    /\ token' = Or(getenv("TELEGRAM_BOT_TOKEN"), PyInt(1))
    /\ chat_id' = Or(getenv("TELEGRAM_CHAT_ID"), PyInt(2))
    /\ IF ~Truthy(token') \/ ~Truthy(chat_id')
       THEN /\ stdout' = Append(stdout, Line("Please set TELEGRAM_BOT_TOKEN and TELEGRAM_CHAT_ID environment variables.", 0, 0))
            /\ pc' = "exit"
            /\ exitCode' = 2
       ELSE /\ pc' = "fetch"
            /\ UNCHANGED <<stdout, exitCode>>
    /\ UNCHANGED <<environ, page, items, idx, sent, delay, trace>>

\* the next position of the loop of line 129 once iteration k is over
LoopNext(k) == IF k + 1 > Len(items) THEN "summary" ELSE "download"

\* a variant of FetchRaises that tries the fetch again instead of exiting
FetchRaisesRetry ==
    /\ pc = "fetch"
    /\ \E resp \in Responses :
         LET r == get_all_items(resp)
         IN  /\ r.raised
             /\ page' = resp
             /\ trace' = Append(trace, Event("fetch", 0, FALSE, 0))
             /\ stdout' = stdout \o r.out \o <<Line("Error fetching/parsing page:", 0, 0)>>
    /\ UNCHANGED <<environ, pc, token, chat_id, items, idx, sent, delay, exitCode>>

\* lines 114-119: get_all_items raises, main prints the error and exits 1
FetchRaises ==
    /\ pc = "fetch"
    /\ \E resp \in Responses :
         LET r == get_all_items(resp)
         IN  /\ r.raised
             /\ page' = resp
             /\ trace' = Append(trace, Event("fetch", 0, FALSE, 0))
             /\ stdout' = stdout \o r.out \o <<Line("Error fetching/parsing page:", 0, 0)>>
    /\ pc' = "exit"
    /\ exitCode' = 1
    /\ UNCHANGED <<environ, token, chat_id, items, idx, sent, delay>>

\* a variant of FetchNoItems without the `continue`: the run falls through
\* to the (empty) loop and the summary
FetchNoItemsFallsThrough ==
    /\ pc = "fetch"
    /\ \E resp \in Responses :
         LET r == get_all_items(resp)
         IN  /\ ~r.raised
             /\ r.items = <<>>
             /\ page' = resp
             /\ trace' = Append(trace, Event("fetch", 0, TRUE, 0))
             /\ stdout' = stdout \o r.out \o <<Line("No items found on the page.", 0, 0)>>
    /\ items' = <<>>
    /\ pc' = "summary"
    /\ UNCHANGED <<environ, token, chat_id, idx, sent, delay, exitCode>>

\* lines 114-123: no items; `continue` ends the one-iteration loop and main returns
FetchNoItems ==
    /\ pc = "fetch"
    /\ \E resp \in Responses :
         LET r == get_all_items(resp)
         IN  /\ ~r.raised
             /\ r.items = <<>>
             /\ page' = resp
             /\ trace' = Append(trace, Event("fetch", 0, TRUE, 0))
             /\ stdout' = stdout \o r.out \o <<Line("No items found on the page.", 0, 0)>>
    /\ items' = <<>>
    /\ pc' = "exit"
    /\ exitCode' = 0
    /\ UNCHANGED <<environ, token, chat_id, idx, sent, delay>>

\* lines 114-130: items found; delay read, session created, loop entered
FetchItems ==
    /\ pc = "fetch"
    /\ \E resp \in Responses :
         LET r == get_all_items(resp)
         IN  /\ ~r.raised
             /\ r.items # <<>>
             /\ page' = resp
             /\ items' = r.items
             /\ trace' = Append(trace, Event("fetch", 0, TRUE, 0))
             /\ stdout' = stdout \o r.out
    /\ delay' = ParseFloat(getenvDefault("TELEGRAM_DELAY_SECONDS", DefaultDelay).s)
    /\ sent' = 0
    /\ idx' = 1
    /\ pc' = "download"
    /\ UNCHANGED <<environ, token, chat_id, exitCode>>

\* lines 130-132: download_image_bytes returns
DownloadOk ==
    /\ pc = "download"
    /\ trace' = Append(trace, Event("download", idx, TRUE, 0))
    /\ stdout' = Append(stdout, Line("Processing:", idx, Len(items)))
    /\ pc' = "send"
    /\ UNCHANGED <<environ, token, chat_id, page, items, idx, sent, delay, exitCode>>

\* a variant of DownloadFails with `break` in place of `continue`
DownloadFailsBreak ==
    /\ pc = "download"
    /\ trace' = Append(trace, Event("download", idx, FALSE, 0))
    /\ stdout' = stdout \o <<Line("Processing:", idx, Len(items)),
                             Line("  Error downloading image:", idx, 0)>>
    /\ pc' = "summary"
    /\ UNCHANGED <<environ, token, chat_id, page, items, idx, sent, delay, exitCode>>

\* a variant of DownloadFails that downloads the same item again
DownloadFailsRetry ==
    /\ pc = "download"
    /\ trace' = Append(trace, Event("download", idx, FALSE, 0))
    /\ stdout' = stdout \o <<Line("Processing:", idx, Len(items)),
                             Line("  Error downloading image:", idx, 0)>>
    /\ UNCHANGED <<environ, pc, token, chat_id, page, items, idx, sent, delay, exitCode>>

\* lines 130-135: download_image_bytes raises; `continue`
DownloadFails ==
    /\ pc = "download"
    /\ trace' = Append(trace, Event("download", idx, FALSE, 0))
    /\ stdout' = stdout \o <<Line("Processing:", idx, Len(items)),
                             Line("  Error downloading image:", idx, 0)>>
    /\ idx' = idx + 1
    /\ pc' = LoopNext(idx)
    /\ UNCHANGED <<environ, token, chat_id, page, items, sent, delay, exitCode>>

\* lines 137-143: send_photo_telegram returns a JSON object whose "ok" is ok
SendOk ==
    /\ pc = "send"
    /\ \E ok \in BOOLEAN :
         stdout' = Append(stdout, Line("  Sent as photo", idx, IF ok THEN 1 ELSE 0))
    /\ trace' = Append(trace, Event("send", idx, TRUE, 0))
    /\ sent' = sent + 1
    /\ pc' = "pause"
    /\ UNCHANGED <<environ, token, chat_id, page, items, idx, delay, exitCode>>

\* a variant of SendFails that takes the post-send pause as well
SendFailsThenPause ==
    /\ pc = "send"
    /\ trace' = Append(trace, Event("send", idx, FALSE, 0))
    /\ stdout' = Append(stdout, Line("  Error sending to Telegram:", idx, 0))
    /\ pc' = "pause"
    /\ UNCHANGED <<environ, token, chat_id, page, items, idx, sent, delay, exitCode>>

\* a variant of SendFails that goes to the next item without the delay
SendFailsSkipsDelay ==
    /\ pc = "send"
    /\ trace' = Append(trace, Event("send", idx, FALSE, 0))
    /\ stdout' = Append(stdout, Line("  Error sending to Telegram:", idx, 0))
    /\ idx' = idx + 1
    /\ pc' = LoopNext(idx)
    /\ UNCHANGED <<environ, token, chat_id, page, items, sent, delay, exitCode>>

\* lines 137-140, 151-153: send_photo_telegram raises
SendFails ==
    /\ pc = "send"
    /\ trace' = Append(trace, Event("send", idx, FALSE, 0))
    /\ stdout' = Append(stdout, Line("  Error sending to Telegram:", idx, 0))
    /\ pc' = "delay"
    /\ UNCHANGED <<environ, token, chat_id, page, items, idx, sent, delay, exitCode>>

\* lines 144-150: time.sleep(3), reached only when the send returned
PostSendSleep ==
    /\ pc = "pause"
    /\ trace' = Append(trace, Event("sleep", idx, TRUE, PostSendPause))
    /\ pc' = "delay"
    /\ UNCHANGED <<environ, token, chat_id, page, items, idx, sent, delay, stdout, exitCode>>

\* lines 155-161: time.sleep(delay), then the next iteration
DelaySleep ==
    /\ pc = "delay"
    /\ trace' = Append(trace, Event("delay", idx, TRUE, delay))
    /\ idx' = idx + 1
    /\ pc' = LoopNext(idx)
    /\ UNCHANGED <<environ, token, chat_id, page, items, sent, delay, stdout, exitCode>>

\* line 163, then main returns
Summary ==
    /\ pc = "summary"
    /\ stdout' = Append(stdout, Line("Done. Sent", sent, Len(items)))
    /\ pc' = "exit"
    /\ exitCode' = 0
    /\ UNCHANGED <<environ, token, chat_id, page, items, idx, sent, delay, trace>>

Next ==
    \/ CheckCredentials
    \/ FetchRaises
    \/ FetchNoItems
    \/ FetchItems
    \/ DownloadOk
    \/ DownloadFails
    \/ SendOk
    \/ SendFails
    \/ PostSendSleep
    \/ DelaySleep
    \/ Summary

Spec == Init /\ [][Next]_vars

(***************************************************************************)
(* Properties                                                              *)
(***************************************************************************)
Fetched == pc \notin {"start", "fetch"}
Positions == 1..Len(trace)
LastLine == stdout[Len(stdout)]
HasLine(text) == \E p \in 1..Len(stdout) : stdout[p].text = text
Attempted(op, k, ok) == \E p \in Positions : trace[p] = Event(op, k, ok, 0)

\* C1: with TELEGRAM_BOT_TOKEN unset or empty, or TELEGRAM_CHAT_ID unset,
\* the run exits with code 2 and makes no network call.
CredentialsMissing ==
    \/ ~Truthy(environ.TELEGRAM_BOT_TOKEN)
    \/ ~Truthy(environ.TELEGRAM_CHAT_ID)
C1_MissingCredentialsExitTwo ==
    CredentialsMissing =>
        /\ trace = <<>>
        /\ pc # "start" => (pc = "exit" /\ exitCode = 2)

\* C2: the page with the one entry href="/news/detail/1310405/1/",
\* alt="Member A" yields exactly the item
\* ("https://thetv.jp/i/nw/1310405/1.jpg", "Member A").
ExamplePage == [status |-> "ok", containers |-> <<<<EntryA>>>>]
ExampleItem ==
    [src |-> <<"h","t","t","p","s",":","/","/","t","h","e","t","v",".","j","p",
               "/","i","/","n","w","/","1","3","1","0","4","0","5","/","1",
               ".","j","p","g">>,
     caption |-> MemberA]
C2_ExampleItemExtracted ==
    (Fetched /\ page = ExamplePage) => items = <<ExampleItem>>

\* C3: a page without any div.newsimage is the no-items case: nothing is
\* raised, the run prints "No items found on the page." and does not exit 1.
C3_NoContainerIsNoItems ==
    (Fetched /\ page.status = "ok" /\ page.containers = <<>>) =>
        /\ pc = "exit"
        /\ exitCode = 0
        /\ LastLine.text = "No items found on the page."

\* C4: every item 1..N is attempted whatever fails, and the summary is
\* "Done. Sent X/N" with X the number of items downloaded and sent without
\* an exception.
SentWithoutRaising ==
    {k \in 1..Len(items) : Attempted("download", k, TRUE) /\ Attempted("send", k, TRUE)}
C4_AllAttemptedAndCounted ==
    (pc = "exit" /\ items # <<>>) =>
        /\ \A k \in 1..Len(items) : \E ok \in BOOLEAN : Attempted("download", k, ok)
        /\ LastLine = Line("Done. Sent", Cardinality(SentWithoutRaising), Len(items))
C4_Witness ==
    /\ pc = "exit"
    /\ Len(items) = 3
    /\ Attempted("download", 2, FALSE)
    /\ Attempted("send", 3, TRUE)
    /\ LastLine = Line("Done. Sent", 2, 3)

\* C5 as stated: after every send attempt, succeeded or failed, the 3 second
\* pause is taken before the inter-item delay.
C5_PauseAfterEverySend ==
    \A p \in Positions :
        trace[p].op = "delay" =>
            /\ p > 2
            /\ trace[p - 2].op = "send"
            /\ trace[p - 1] = Event("sleep", trace[p].k, TRUE, 3)

\* C5 amended: the 3 second pause is taken after a send that returned, and
\* only then, before the inter-item delay; after a send that raised the run
\* goes straight to the inter-item delay.
C5_PauseOnlyAfterSuccessfulSend ==
    /\ \A q \in Positions :
         trace[q].op = "send" =>
            IF trace[q].ok
            THEN IF q = Len(trace) THEN pc = "pause"
                 ELSE /\ trace[q + 1] = Event("sleep", trace[q].k, TRUE, 3)
                      /\ IF q + 1 = Len(trace) THEN pc = "delay"
                         ELSE trace[q + 2].op = "delay"
            ELSE IF q = Len(trace) THEN pc = "delay"
                 ELSE trace[q + 1].op = "delay"
    /\ \A p \in Positions :
         trace[p].op = "sleep" =>
            p > 1 /\ trace[p - 1] = Event("send", trace[p].k, TRUE, 0)
C5_Witness ==
    \E p, q \in Positions :
        /\ trace[p] = Event("send", 1, FALSE, 0)
        /\ p < Len(trace) /\ trace[p + 1].op = "delay"
        /\ trace[q] = Event("send", 2, TRUE, 0)
        /\ q + 1 < Len(trace) /\ trace[q + 1].op = "sleep" /\ trace[q + 2].op = "delay"

\* C6: get_all_items returns, in document order, one item per entry that
\* has an anchor with a non-empty href, without raising; the caption is the
\* image's alt text, and empty when there is no image or no alt attribute.
HasHref(li) == \E j \in 1..Len(li.anchors) : Truthy(li.anchors[j])
ClaimedCaption(li) ==
    IF li.imgs = <<>> \/ li.imgs[1].ty = "none" THEN <<>> ELSE li.imgs[1].s
RECURSIVE ClaimedCaptions(_)
ClaimedCaptions(lis) ==
    IF lis = <<>> THEN <<>>
    ELSE (IF HasHref(Head(lis)) THEN <<ClaimedCaption(Head(lis))>> ELSE <<>>)
         \o ClaimedCaptions(Tail(lis))
C6_OneItemPerEntryWithHref ==
    (Fetched /\ page.status = "ok" /\ page.containers # <<>>) =>
        /\ ~HasLine("Error fetching/parsing page:")
        /\ [j \in 1..Len(items) |-> items[j].caption] = ClaimedCaptions(page.containers[1])

\* C7: when the page fetch/parse step raises, the run exits with code 1
\* after that one fetch, with no download and no send.
C7_FetchFailureAborts ==
    (\E p \in Positions : trace[p].op = "fetch" /\ ~trace[p].ok) =>
        /\ pc = "exit"
        /\ exitCode = 1
        /\ trace = <<Event("fetch", 0, FALSE, 0)>>
C7_Witness ==
    /\ pc = "exit"
    /\ exitCode = 1
    /\ page.status = "error"
    /\ trace = <<Event("fetch", 0, FALSE, 0)>>

\* C8: when extraction returns no items the run prints "No items found on
\* the page.", downloads and sends nothing, prints no summary and ends
\* with exit code 0.
ExtractsNothing(resp) ==
    ~get_all_items(resp).raised /\ get_all_items(resp).items = <<>>
C8_NoItemsEndsQuietly ==
    (Fetched /\ ExtractsNothing(page)) =>
        /\ pc = "exit"
        /\ exitCode = 0
        /\ LastLine = Line("No items found on the page.", 0, 0)
        /\ ~HasLine("Done. Sent")
        /\ trace = <<Event("fetch", 0, TRUE, 0)>>
C8_Witness ==
    /\ pc = "exit"
    /\ exitCode = 0
    /\ page = [status |-> "ok", containers |-> <<<<EntryNoAnchor, EntryEmptyHref>>>>]
    /\ HasLine("No items found on the page.")

\* C9: items are handled in extraction order, one download attempt and at
\* most one send attempt each; a send follows directly the successful
\* download of the same item; item k+1 starts after item k is over.
C9_OneAttemptInOrder ==
    /\ \A p, q \in Positions :
         (p < q /\ trace[p].op = "download" /\ trace[q].op = "download") =>
            trace[p].k < trace[q].k
    /\ \A p \in Positions :
         trace[p].op = "send" =>
            p > 1 /\ trace[p - 1] = Event("download", trace[p].k, TRUE, 0)
    /\ \A p, q \in Positions :
         (p < q /\ trace[p].op = "send" /\ trace[q].op = "send") =>
            trace[p].k < trace[q].k
    /\ \A p \in Positions :
         trace[p].op = "download" =>
            /\ trace[p].k \in 1..Len(items)
            /\ \A q \in 1..(p - 1) : trace[q].k < trace[p].k
            /\ trace[p].k > 1 => \E ok \in BOOLEAN : Attempted("download", trace[p].k - 1, ok)
C9_Witness ==
    /\ Attempted("download", 1, FALSE)
    /\ Attempted("download", 2, TRUE)
    /\ Attempted("send", 2, FALSE)
    /\ Attempted("download", 3, TRUE)
    /\ pc = "send"

\* C10 as stated: the inter-item delay is slept between every two
\* consecutive items, whatever happened to the earlier one.
ConfiguredDelay == IF environ.TELEGRAM_DELAY_SECONDS.ty = "none" THEN 1 ELSE 2
C10_DelayBetweenAllItems ==
    \A p \in Positions :
        (trace[p].op = "download" /\ trace[p].k > 1) =>
            trace[p - 1] = Event("delay", trace[p].k - 1, TRUE, ConfiguredDelay)

\* C10 amended: the inter-item delay is slept at the end of every iteration
\* whose download succeeded, whether its send succeeded or failed; an
\* iteration whose download failed goes to the next item without any sleep.
C10_DelayBetweenItems ==
    \A p \in Positions :
        (trace[p].op = "download" /\ trace[p].k > 1) =>
            IF Attempted("download", trace[p].k - 1, TRUE)
            THEN trace[p - 1] = Event("delay", trace[p].k - 1, TRUE, ConfiguredDelay)
            ELSE trace[p - 1] = Event("download", trace[p].k - 1, FALSE, 0)
IterationOver(k) == k \in 1..Len(items) /\ (k < idx \/ pc \in {"summary", "exit"})
C10_DelayIffDownloaded ==
    \A k \in 1..Len(items) :
        IterationOver(k) =>
            (Attempted("download", k, TRUE)
                <=> \E p \in Positions : trace[p] = Event("delay", k, TRUE, ConfiguredDelay))
\* C10 amended, in full: the delay of an iteration is slept exactly when its
\* download succeeded, and it is what separates that item from the next.
C10_DelayUnlessDownloadFailed == C10_DelayBetweenItems /\ C10_DelayIffDownloaded
C10_Witness ==
    \E p, q \in Positions :
        /\ trace[p] = Event("download", 2, TRUE, 0)
        /\ trace[p - 1] = Event("download", 1, FALSE, 0)
        /\ trace[q] = Event("download", 3, FALSE, 0)
        /\ trace[q - 2] = Event("send", 2, FALSE, 0)
        /\ trace[q - 1] = Event("delay", 2, TRUE, 2)

====
